---- MODULE Spec2Model ----
(***************************************************************************)
(* The EC2 dashboard of src/main.go as a state machine: main's startup,    *)
(* the table widget it fills, the key handler installed on the table, and  *)
(* the modal message surface.  Provider calls (DescribeInstances,          *)
(* StartInstances, StopInstances) are inputs: each step that issues one    *)
(* draws its outcome from a bounded set.                                   *)
(*                                                                         *)
(* Table rows are numbered from 0 as in the code (row 0 is the header);    *)
(* the sequence `table` holds row r at index r + 1.                        *)
(***************************************************************************)
EXTENDS Naturals, Integers, Sequences, FiniteSets, TLC

VARIABLES
    pc,           \* position of main: "start", "client", "run", "fatal", "done"
    table,        \* the tview.Table's cells: a sequence of rows of cells
    selectedRow,  \* the table's selected row (GetSelection)
    root,         \* the application's root primitive: "none", "flex", "modal", "table"
    modalText,    \* text of the modal set as root, NoMessage if none
    logged,       \* what log.Fatal/log.Fatalf wrote, NoMessage if nothing
    key,          \* history: the last input event delivered to the application
    call          \* history: the provider call issued by the last step

vars == <<pc, table, selectedRow, root, modalText, logged, key, call>>

-----------------------------------------------------------------------------
(* Bounds of the model *)

MaxReservations == 2
MaxInstances == 2

-----------------------------------------------------------------------------
(* Values *)

NoErr == ""
NoMessage == ""

\* Errors the SDK can return from a provider call / from loading the config.
ProviderErrs == {"RequestError"}
ConfigErrs == {"ProfileNotFound"}

PowerStates == {"pending", "running", "stopping", "stopped", "shutting-down", "terminated"}

\* An optional (pointer) field is the empty sequence when nil, <<v>> otherwise.
ProviderInstance(id, tags, platform, publicIp, nis, sgs, state) ==
    [InstanceId |-> id, Tags |-> tags, Platform |-> platform,
     PublicIpAddress |-> publicIp, NetworkInterfaces |-> nis,
     SecurityGroups |-> sgs, State |-> state]

Tag(k, v) == [Key |-> k, Value |-> v]

\* The instances the provider may report in a multi-instance listing.
Fleet ==
    { ProviderInstance("i-1",
                       <<Tag("other", "x"), Tag("Name", "web-1"), Tag("Name", "ignored-dup")>>,
                       "", <<"203.0.113.1">>, << <<"10.0.0.1">>, <<"10.0.0.9">> >>,
                       <<"sg-1", "sg-2">>, "running"),
      ProviderInstance("i-2", <<>>, "windows", <<>>, <<>>, <<>>, "stopped") }

\* Single instances in every power state, each state with two settings of the
\* other fields.
Probes ==
    { ProviderInstance("i-8", <<>>, "", <<>>, << <<>> >>, <<"sg-8">>, state) :
        state \in PowerStates }
    \cup
    { ProviderInstance("i-9", <<Tag("Name", "probe")>>, "windows", <<"198.51.100.9">>,
                       << <<"10.0.0.9">> >>, <<>>, state) :
        state \in PowerStates }

RECURSIVE SeqSum(_)
SeqSum(s) == IF s = <<>> THEN 0 ELSE Len(Head(s)) + SeqSum(Tail(s))

SeqsUpTo(S, n) == UNION { [1..k -> S] : k \in 0..n }

\* DescribeInstances outputs: up to MaxReservations reservations (a reservation
\* may be empty) holding up to MaxInstances instances in total.
FleetOutputs ==
    { rs \in SeqsUpTo(SeqsUpTo(Fleet, MaxInstances), MaxReservations) :
        SeqSum(rs) <= MaxInstances }

ProbeOutputs == { << <<p>> >> : p \in Probes }

DescribeOk(rs) == [err |-> NoErr, Reservations |-> rs]
DescribeFail(e) == [err |-> e, Reservations |-> <<>>]

\* What client.DescribeInstances may return.
DescribeResults ==
    { DescribeOk(rs) : rs \in FleetOutputs \cup ProbeOutputs }
        \cup { DescribeFail(e) : e \in ProviderErrs }

\* What client.StartInstances / client.StopInstances may return.
ActionResults == {NoErr} \cup ProviderErrs

NoCall == [op |-> "none", id |-> "", err |-> NoErr, Reservations |-> <<>>]
ListCall(res) == [op |-> "list", id |-> "", err |-> res.err, Reservations |-> res.Reservations]
StartCall(id, err) == [op |-> "start", id |-> id, err |-> err, Reservations |-> <<>>]
StopCall(id, err) == [op |-> "stop", id |-> id, err |-> err, Reservations |-> <<>>]

-----------------------------------------------------------------------------
(* Inventory client *)

joinStrings(slice, sep) ==
    LET RECURSIVE loop(_, _)
        loop(result, i) ==
            IF i <= Len(slice) THEN loop(result \o sep \o slice[i], i + 1) ELSE result
    IN  IF Len(slice) = 0 THEN "" ELSE loop(slice[1], 2)

\* The first tag whose key is "Name", "" if there is none.
NameTag(tags) ==
    LET RECURSIVE scan(_)
        scan(i) ==
            IF i > Len(tags) THEN ""
            ELSE IF tags[i].Key = "Name" THEN tags[i].Value
            ELSE scan(i + 1)
    IN  scan(1)

\* The Instance record getInstances appends for one provider instance.
Instance(instance) ==
    [GlobalIP        |-> IF instance.PublicIpAddress # <<>>
                         THEN instance.PublicIpAddress[1] ELSE "",
     InstanceId      |-> instance.InstanceId,
     Name            |-> NameTag(instance.Tags),
     Platform        |-> IF instance.Platform # "" THEN instance.Platform ELSE "None",
     PrivateIp       |-> IF Len(instance.NetworkInterfaces) > 0
                            /\ instance.NetworkInterfaces[1] # <<>>
                         THEN instance.NetworkInterfaces[1][1] ELSE "",
     SecurityGroupId |-> joinStrings(instance.SecurityGroups, ", "),
     State           |-> instance.State]

\* getInstances: ([]Instance, error) for a DescribeInstances result.
getInstances(res) ==
    LET RECURSIVE inner(_, _, _)
        inner(instances, reservation, j) ==
            IF j > Len(reservation) THEN instances
            ELSE inner(Append(instances, Instance(reservation[j])), reservation, j + 1)
        RECURSIVE outer(_, _)
        outer(instances, i) ==
            IF i > Len(res.Reservations) THEN instances
            ELSE outer(inner(instances, res.Reservations[i], 1), i + 1)
    IN  IF res.err # NoErr
        THEN [instances |-> <<>>, err |-> res.err]
        ELSE [instances |-> outer(<<>>, 1), err |-> NoErr]

-----------------------------------------------------------------------------
(* Table widget, as main uses it *)

NewTableCell(text) == [Text |-> text, Color |-> "default", NotSelectable |-> FALSE]
SetTextColor(cell, color) == [cell EXCEPT !.Color = color]
SetSelectable(cell, selectable) == [cell EXCEPT !.NotSelectable = ~selectable]

\* The cell GetCell hands back for a position that was never set.
EmptyCell == [Text |-> "", Color |-> "default", NotSelectable |-> FALSE]

GetRowCount(t) == Len(t)

GetCell(t, row, column) ==
    IF row < 0 \/ column < 0 \/ row >= Len(t) THEN EmptyCell
    ELSE IF column >= Len(t[row + 1]) THEN EmptyCell
    ELSE t[row + 1][column + 1]

\* SetCell grows the table and the row as needed.
SetCell(t, row, column, cell) ==
    LET grown == IF row >= Len(t)
                 THEN t \o [i \in 1..(row + 1 - Len(t)) |-> <<>>]
                 ELSE t
        old == grown[row + 1]
        wide == IF column >= Len(old)
                THEN old \o [i \in 1..(column + 1 - Len(old)) |-> EmptyCell]
                ELSE old
    IN  [grown EXCEPT ![row + 1] = [wide EXCEPT ![column + 1] = cell]]

RemoveRow(t, row) ==
    IF row < 0 \/ row >= Len(t) THEN t
    ELSE SubSeq(t, 1, row) \o SubSeq(t, row + 2, Len(t))

headers == <<"GlobalIP", "InstanceId", "Name", "Platform", "PrivateIp", "SecurityGroupId", "State">>

\* The table after main has set the header cells.
HeaderTable ==
    LET RECURSIVE loop(_, _)
        loop(t, i) ==
            IF i >= Len(headers) THEN t
            ELSE loop(SetCell(t, 0, i,
                              SetSelectable(SetTextColor(NewTableCell(headers[i + 1]), "yellow"),
                                            FALSE)),
                      i + 1)
    IN  loop(<<>>, 0)

-----------------------------------------------------------------------------
(* Dashboard *)

\* Mutant: the switch without its "stopping" case.
StateColorNoStopping(state) ==
    CASE state = "running" -> "green"
      [] state = "stopped" -> "red"
      [] state = "pending" -> "yellow"
      [] OTHER -> "default"

\* The colour refreshTable gives the State cell.
StateColor(state) ==
    CASE state = "running" -> "green"
      [] state = "stopped" -> "red"
      [] state \in {"pending", "stopping"} -> "yellow"
      [] OTHER -> "default"

stateCell(state) ==
    IF StateColor(state) = "default" THEN NewTableCell(state)
    ELSE SetTextColor(NewTableCell(state), StateColor(state))

\* Mutant: the old rows are not removed before the new ones are set.
ClearRowsNone(t, row) == t

\* The loop that removes the rows below the header, last row first.
RECURSIVE ClearRows(_, _)
ClearRows(t, row) ==
    IF row >= 1 THEN ClearRows(RemoveRow(t, row), row - 1) ELSE t

\* The seven SetCell calls for instance i (0-based) of the listing.
SetInstanceRow(t, i, instance) ==
    LET row == i + 1
        t0 == SetCell(t, row, 0, NewTableCell(instance.GlobalIP))
        t1 == SetCell(t0, row, 1, NewTableCell(instance.InstanceId))
        t2 == SetCell(t1, row, 2, NewTableCell(instance.Name))
        t3 == SetCell(t2, row, 3, NewTableCell(instance.Platform))
        t4 == SetCell(t3, row, 4, NewTableCell(instance.PrivateIp))
        t5 == SetCell(t4, row, 5, NewTableCell(instance.SecurityGroupId))
    IN  SetCell(t5, row, 6, stateCell(instance.State))

RECURSIVE FillRows(_, _, _)
FillRows(t, instances, i) ==
    IF i >= Len(instances) THEN t
    ELSE FillRows(SetInstanceRow(t, i, instances[i + 1]), instances, i + 1)

\* Mutant: the rows are cleared before the list call's error is looked at.
refreshTableClearsFirst(t, res) ==
    LET got == getInstances(res)
        cleared == ClearRows(t, GetRowCount(t) - 1)
    IN  IF got.err # NoErr
        THEN [err |-> got.err, table |-> cleared]
        ELSE [err |-> NoErr, table |-> FillRows(cleared, got.instances, 0)]

\* refreshTable: the error it returns and the table it leaves.
refreshTable(t, res) ==
    LET got == getInstances(res)
    IN  IF got.err # NoErr
        THEN [err |-> got.err, table |-> t]
        ELSE [err |-> NoErr,
              table |-> FillRows(ClearRows(t, GetRowCount(t) - 1), got.instances, 0)]

\* The dashboard state: the UI is up between Run's start and Stop.
View ==
    IF pc = "done" THEN "Terminated"
    ELSE IF pc # "run" THEN "NotStarted"
    ELSE IF root = "modal" THEN "Modal"
    ELSE "Table"

\* Mutant: the key handler is reached whatever the root is.
TableHasFocusAlways == TRUE

\* Key events reach the table's input capture only while the table is in the
\* root that has focus (the flex at first, the table itself after a modal).
TableHasFocus == root \in {"flex", "table"}

\* The keys the operator may press: the four bound ones and an unbound one.
Keys == {"s", "t", "r", "q", "x"}

\* Mutant: the modal is built but never made the root.
showMessageNoRoot(message) ==
    /\ modalText' = message
    /\ UNCHANGED root

\* showMessage: a modal carrying the message becomes the root.
showMessage(message) ==
    /\ root' = "modal"
    /\ modalText' = message

\* Mutant: the guard tests for a negative row instead of row 0.
IgnoredRowNegative(row) == row < 0

\* The header-row guard at the top of the input capture.
IgnoredRow(row) == row = 0

\* Mutant: a start also takes the selected row out of the table.
CaseStartDropsRow(instanceID) ==
    \E err \in ActionResults :
        /\ call' = StartCall(instanceID, err)
        /\ IF err # NoErr
           THEN showMessage("Error starting instance: " \o err)
           ELSE showMessage("Starting instance: " \o instanceID)
        /\ table' = RemoveRow(table, selectedRow)
        /\ UNCHANGED pc

CaseStart(instanceID) ==
    \E err \in ActionResults :
        /\ call' = StartCall(instanceID, err)
        /\ IF err # NoErr
           THEN showMessage("Error starting instance: " \o err)
           ELSE showMessage("Starting instance: " \o instanceID)
        /\ UNCHANGED <<pc, table>>

CaseStop(instanceID) ==
    \E err \in ActionResults :
        /\ call' = StopCall(instanceID, err)
        /\ IF err # NoErr
           THEN showMessage("Error stopping instance: " \o err)
           ELSE showMessage("Stopping instance: " \o instanceID)
        /\ UNCHANGED <<pc, table>>

\* app.Stop(): Run returns and main ends.
CaseQuit ==
    /\ pc' = "done"
    /\ call' = NoCall
    /\ UNCHANGED <<table, root, modalText>>

CaseRefresh ==
    \E res \in DescribeResults :
        LET r == refreshTable(table, res)
        IN  /\ call' = ListCall(res)
            /\ table' = r.table
            /\ IF r.err # NoErr
               THEN showMessage("Error refreshing: " \o r.err)
               ELSE UNCHANGED <<root, modalText>>
            /\ UNCHANGED pc

\* The function given to table.SetInputCapture, for the rune k.
InputCapture(k) ==
    /\ key' = k
    /\ IF IgnoredRow(selectedRow)
       THEN /\ call' = NoCall
            /\ UNCHANGED <<pc, table, root, modalText>>
       ELSE LET instanceID == GetCell(table, selectedRow, 1).Text
            IN  CASE k = "s" -> CaseStart(instanceID)
                  [] k = "t" -> CaseStop(instanceID)
                  [] k = "q" -> CaseQuit
                  [] k = "r" -> CaseRefresh
                  [] OTHER -> /\ call' = NoCall
                              /\ UNCHANGED <<pc, table, root, modalText>>
    /\ UNCHANGED <<selectedRow, logged>>

-----------------------------------------------------------------------------
(* Steps *)

Init ==
    /\ pc = "start"
    /\ table = <<>>
    /\ selectedRow = 0
    /\ root = "none"
    /\ modalText = NoMessage
    /\ logged = NoMessage
    /\ key = "none"
    /\ call = NoCall

\* NewEC2Client, then the application, the table and its header row.
NewClient ==
    /\ pc = "start"
    /\ \E err \in {NoErr} \cup ConfigErrs :
        IF err # NoErr
        THEN /\ pc' = "fatal"
             /\ logged' = "Failed to create EC2 client: unable to load SDK config: " \o err
             /\ UNCHANGED table
        ELSE /\ pc' = "client"
             /\ table' = HeaderTable
             /\ UNCHANGED logged
    /\ call' = NoCall
    /\ UNCHANGED <<selectedRow, root, modalText, key>>

\* Mutant: a failed first refresh is shown in a modal, as a later one is,
\* and the UI starts.
InitialRefreshShowsError ==
    /\ pc = "client"
    /\ \E res \in DescribeResults :
        LET r == refreshTable(table, res)
        IN  /\ call' = ListCall(res)
            /\ table' = r.table
            /\ pc' = "run"
            /\ IF r.err # NoErr
               THEN showMessage("Error refreshing: " \o r.err)
               ELSE root' = "flex" /\ UNCHANGED modalText
    /\ UNCHANGED <<selectedRow, logged, key>>

\* The first refreshTable; on success main installs the handler and the flex
\* layout and enters Run.
InitialRefresh ==
    /\ pc = "client"
    /\ \E res \in DescribeResults :
        LET r == refreshTable(table, res)
        IN  /\ call' = ListCall(res)
            /\ table' = r.table
            /\ IF r.err # NoErr
               THEN /\ pc' = "fatal"
                    /\ logged' = r.err
                    /\ UNCHANGED root
               ELSE /\ pc' = "run"
                    /\ root' = "flex"
                    /\ UNCHANGED logged
    /\ UNCHANGED <<selectedRow, modalText, key>>

\* A key press while the table has focus.
TableKey ==
    /\ pc = "run"
    /\ TableHasFocus
    /\ \E k \in Keys : InputCapture(k)

\* The operator moves the selection (keyboard or mouse) to a row of the table.
Navigate ==
    /\ pc = "run"
    /\ TableHasFocus
    /\ \E row \in 0..(GetRowCount(table) - 1) : selectedRow' = row
    /\ key' = "nav"
    /\ call' = NoCall
    /\ UNCHANGED <<pc, table, root, modalText, logged>>

\* A key press while the modal is the root: the modal has the focus and the
\* table's input capture is not called.
ModalKey ==
    /\ pc = "run"
    /\ root = "modal"
    /\ \E k \in Keys : key' = k
    /\ call' = NoCall
    /\ UNCHANGED <<pc, table, selectedRow, root, modalText, logged>>

\* The modal's OK button: its done function makes the table the root.
Acknowledge ==
    /\ pc = "run"
    /\ root = "modal"
    /\ root' = "table"
    /\ modalText' = NoMessage
    /\ key' = "ok"
    /\ call' = NoCall
    /\ UNCHANGED <<pc, table, selectedRow, logged>>

Next ==
    \/ NewClient
    \/ InitialRefresh
    \/ TableKey
    \/ Navigate
    \/ ModalKey
    \/ Acknowledge

Spec == Init /\ [][Next]_vars

-----------------------------------------------------------------------------
(* Properties *)

InstanceRows == GetRowCount(table) - 1

\* The i-th (1-based) provider instance of a DescribeInstances output, counting
\* through the reservations in order.
RECURSIVE NthInstance(_, _)
NthInstance(rs, i) ==
    IF i <= Len(Head(rs)) THEN Head(rs)[i]
    ELSE NthInstance(Tail(rs), i - Len(Head(rs)))

RowTexts(row) == [c \in 1..Len(table[row + 1]) |-> table[row + 1][c].Text]

\* C1: a refresh on 'r' whose list call fails leaves the table (row count,
\* order, every cell, header included) exactly as it was before the key press.
C1_FailedRefreshKeepsRows ==
    [][(key' = "r" /\ call'.op = "list" /\ call'.err # NoErr) => table' = table]_vars

C1_Witness ==
    /\ key = "r"
    /\ call.op = "list"
    /\ call.err # NoErr
    /\ View = "Modal"
    /\ InstanceRows >= 2

\* C2: 's' or 't' pressed while the header row (row 0) is selected issues no
\* provider call and changes neither the table nor the active view.
C2_HeaderRowNoOp ==
    [][(View = "Table" /\ selectedRow = 0 /\ key' \in {"s", "t"})
        => /\ call' = NoCall
           /\ table' = table
           /\ View' = "Table"
           /\ root' = root
           /\ modalText' = modalText]_vars

C2_Witness ==
    /\ key \in {"s", "t"}
    /\ View = "Table"
    /\ selectedRow = 0
    /\ call = NoCall
    /\ InstanceRows >= 1

C4_ModalAfterEveryCall ==
    (key \in {"s", "t", "r"} /\ call.op # "none")
        => (View = "Modal" /\ modalText # NoMessage)

\* C4 amended: after an 's' or 't' action that issues a provider call, and
\* after an 'r' whose list call fails, the dashboard is in Modal showing the
\* message of that outcome; an 'r' whose list call succeeds leaves the
\* dashboard in Table with no modal.
C4_ModalAfterOutcome ==
    /\ (call.op = "start" /\ call.err = NoErr)
        => (View = "Modal" /\ modalText = "Starting instance: " \o call.id)
    /\ (call.op = "start" /\ call.err # NoErr)
        => (View = "Modal" /\ modalText = "Error starting instance: " \o call.err)
    /\ (call.op = "stop" /\ call.err = NoErr)
        => (View = "Modal" /\ modalText = "Stopping instance: " \o call.id)
    /\ (call.op = "stop" /\ call.err # NoErr)
        => (View = "Modal" /\ modalText = "Error stopping instance: " \o call.err)
    /\ (key = "r" /\ call.op = "list" /\ call.err # NoErr)
        => (View = "Modal" /\ modalText = "Error refreshing: " \o call.err)
    /\ (key = "r" /\ call.op = "list" /\ call.err = NoErr)
        => (View = "Table" /\ modalText = NoMessage)

C4_Witness ==
    /\ key = "s"
    /\ call.op = "start"
    /\ call.err = NoErr
    /\ call.id = "i-2"
    /\ View = "Modal"

\* C5: while the modal is displayed a key press dispatches no table action and
\* issues no provider call; the only step that leaves Modal is the
\* acknowledgement, which makes the table the active view with its rows unchanged.
C5_AcknowledgementGate ==
    [][View = "Modal"
        => /\ call' = NoCall
           /\ table' = table
           /\ selectedRow' = selectedRow
           /\ \/ (View' = "Modal" /\ modalText' = modalText)
              \/ (View' = "Table" /\ key' = "ok")]_vars

\* After an acknowledgement the table is the root, and a key is dispatched again.
C5_Witness ==
    /\ root = "table"
    /\ key = "r"
    /\ call.op = "list"
    /\ call.err = NoErr
    /\ InstanceRows >= 1

\* C6: after a successful refresh (at startup or on 'r') of a listing with N
\* instances in any number of reservations, the table is the header row followed
\* by exactly N rows, row i showing the i-th instance in provider order.
C6_RowsAreTheListing ==
    (call.op = "list" /\ call.err = NoErr) =>
        /\ GetRowCount(table) = 1 + SeqSum(call.Reservations)
        /\ RowTexts(0) = headers
        /\ \A i \in 1..SeqSum(call.Reservations) :
            LET p == NthInstance(call.Reservations, i)
            IN  /\ Len(table[i + 1]) = 7
                /\ table[i + 1][2].Text = p.InstanceId
                /\ table[i + 1][7].Text = p.State
                /\ RowTexts(i) = <<Instance(p).GlobalIP, p.InstanceId, Instance(p).Name,
                                   Instance(p).Platform, Instance(p).PrivateIp,
                                   Instance(p).SecurityGroupId, p.State>>

C6_Witness ==
    /\ key = "r"
    /\ call.op = "list"
    /\ call.err = NoErr
    /\ Len(call.Reservations) = 2
    /\ Len(call.Reservations[1]) = 1
    /\ InstanceRows = 2
    /\ table[2][2].Text # table[3][2].Text

\* C7: an 's' or 't' key press on the table never modifies the table, whether
\* its provider call fails or succeeds; when a call was issued only the active
\* view changes, to the modal.
C7_StartStopKeepTable ==
    [][(View = "Table" /\ key' \in {"s", "t"})
        => /\ table' = table
           /\ selectedRow' = selectedRow
           /\ (call'.op # "none" => View' = "Modal")]_vars

C7_Witness ==
    /\ key = "t"
    /\ call.op = "stop"
    /\ call.err # NoErr
    /\ View = "Modal"
    /\ InstanceRows >= 2

\* C8: when loading the configuration fails, or the first inventory fetch fails,
\* the process aborts with a logged message and the UI never starts: no root is
\* set, no modal is shown and no key is dispatched.
C8_StartupFailureIsFatal ==
    /\ pc = "fatal"
        => /\ View = "NotStarted"
           /\ root = "none"
           /\ modalText = NoMessage
           /\ key = "none"
           /\ logged # NoMessage
    /\ (key = "none" /\ call.op = "list" /\ call.err # NoErr) => pc = "fatal"
    /\ logged # NoMessage => pc = "fatal"

C8_Witness ==
    /\ pc = "fatal"
    /\ call.op = "list"
    /\ call.err # NoErr
    /\ logged = call.err

\* C9: the colour of a row's State cell depends on the row's power state alone:
\* running is green, stopped red, pending and stopping yellow, any other default.
C9_StateColour ==
    \A r \in 1..InstanceRows :
        LET cell == table[r + 1][7]
        IN  /\ cell.Text = "running" => cell.Color = "green"
            /\ cell.Text = "stopped" => cell.Color = "red"
            /\ cell.Text = "pending" => cell.Color = "yellow"
            /\ cell.Text = "stopping" => cell.Color = "yellow"
            /\ cell.Text \notin {"running", "stopped", "pending", "stopping"}
                => cell.Color = "default"

C9_Witness ==
    /\ InstanceRows = 1
    /\ table[2][7].Text = "shutting-down"
    /\ table[2][7].Color = "default"
    /\ table[2][4].Text = "windows"

\* C10: every start or stop call carries a non-empty identifier that is the
\* InstanceId of a row currently in the table.
C10_CallsNameATableRow ==
    call.op \in {"start", "stop"} =>
        /\ call.id # ""
        /\ \E r \in 1..InstanceRows : table[r + 1][2].Text = call.id

====
